---- MODULE Spec2Model ----
(***************************************************************************)
(* A model of spdxify.py: the per-file scan (file_props), the license      *)
(* matcher (identify_license), the filter stage (process) and the rewrite  *)
(* pass (generate_new / insert_spdx).                                      *)
(*                                                                         *)
(* A line of a file is abstracted to what the tool can observe of it:      *)
(*   ph    the set of phrases the line contains (the substrings and the    *)
(*         regular expression the tool searches for),                      *)
(*   spdx  the tokens that follow 'SPDX-License-Identifier: ' on the line  *)
(*         (<<>> when the line holds no tag),                              *)
(*   blank whether is_blank() holds of it, i.e. whether nothing but white  *)
(*         space follows the first len(commentPrefix) characters.          *)
(***************************************************************************)
EXTENDS Integers, Sequences, FiniteSets, TLC

VARIABLES
    file,       \* the path of the file, abstracted to the suffix the tool tests
    content,    \* the lines of the file on disk
    newfile,    \* whether the sibling file + '.new' exists on disk
    args,       \* the parsed command line
    pc,         \* where process(file) stands
    run,        \* how many times the tool has been started on the file
    sc,         \* the locals of file_props
    props,      \* the props dictionary of file_props
    call,       \* the last call of identify_license: its text and its result
    rw,         \* the locals of generate_new
    reported,   \* whether print_file_and_props was reached in this run
    err,        \* why the run ended, when it ended abnormally
    mode,       \* the permission bits of the file on disk
    content0,   \* the lines of the file when this run started
    hist        \* one summary per earlier run

vars == <<file, content, newfile, args, pc, run, sc, props, call, rw,
          reported, err, mode, content0, hist>>

-----------------------------------------------------------------------------
(* Bounds of the model.                                                    *)

MaxLen == 4       \* the lines of a file
MaxLongLen == 5   \* the lines of a file that holds full license texts
MaxRuns == 2      \* the runs of the tool on one file

-----------------------------------------------------------------------------
(* The phrases of lines 62-79.                                             *)

BSDStart == "Redistribution and use.*in source and binary forms"
BSDEnd == "SUCH DAMAGE."
BSDClause1 == "Redistributions of source code must retain the above"
BSDClause2 == "Redistributions in binary form must reproduce the above"
BSDClause3 == "The name of the author may not be used to endorse"
BSDClause3_1 == "Neither the name of"
BSDClause3_2 == "be used to endorse or promote"
Apache2 == "Apache License, Version 2.0"
ZlibStart == "This software is provided 'as-is', without any express or implied"
ZlibClause3 == "This notice may not be removed or altered from any source distribution"
ZlibEnd == ZlibClause3
ZlibRef == "see copyright notice in zlib.h"
ISCStart == "Permission to use, copy, modify, and distribute this software"
ISCEnd == "IN CONNECTION WITH THE USE OR PERFORMANCE OF THIS SOFTWARE"
AllRightsReserved == "All rights reserved"
knownSPDXIDs == {"BSD-2-Clause", "BSD-3-Clause", "Apache-2.0", "ISC", "Zlib",
                 "BSD-Source-Code"}

(* Phrases the tool searches for by a literal in the code.                 *)
Copyright == "Copyright"
Linaro == "Linaro"
SlashStar == "/*"
Hash == "#"
(* Phrases the tool never searches for.                                    *)
Shebang == "#!"
DualLicen == "dual licen"

(* re.search(SPDX_ID, line), lines 69 and 237-239: the identifier is the   *)
(* run of [\w\-\.] that follows 'SPDX-License-Identifier: ' directly; an   *)
(* opening parenthesis there makes the search fail. "" stands for None.    *)
SPDX_ID(line) ==
    IF line.spdx # <<>> /\ line.spdx[1] # "(" THEN line.spdx[1] ELSE ""

-----------------------------------------------------------------------------
(* identify_license, lines 85-122.                                         *)

NoFlags == [hasBSDStart |-> FALSE, hasBSDClause1 |-> FALSE,
            hasBSDClause2 |-> FALSE, hasBSDClause3 |-> FALSE]

(* The loop of lines 91-103: ret is the kind returned from inside the      *)
(* loop, "" when the loop ran to its end.                                  *)
RECURSIVE identify_loop(_, _, _)
identify_loop(text, i, f) ==
    IF i > Len(text) THEN [ret |-> "", flags |-> f]
    ELSE LET line == text[i]
             g == [hasBSDStart |-> f.hasBSDStart \/ BSDStart \in line.ph,
                   hasBSDClause1 |-> f.hasBSDClause1 \/ BSDClause1 \in line.ph,
                   hasBSDClause2 |-> f.hasBSDClause2 \/ BSDClause2 \in line.ph,
                   hasBSDClause3 |-> f.hasBSDClause3
                                     \/ BSDClause3 \in line.ph
                                     \/ BSDClause3_1 \in line.ph
                                     \/ BSDClause3_2 \in line.ph]
         IN  IF ZlibStart \in line.ph THEN [ret |-> "Zlib", flags |-> g]
             ELSE IF ISCStart \in line.ph THEN [ret |-> "ISC", flags |-> g]
             ELSE identify_loop(text, i + 1, g)

(* bsd_kind with clause 2 tested where line 114 tests clause 3.            *)
bsd_kind_wrong_test_114(f) ==
    IF f.hasBSDClause1
    THEN IF f.hasBSDClause2
         THEN IF f.hasBSDClause3 THEN "BSD-3-Clause" ELSE "BSD-2-Clause"
         ELSE IF f.hasBSDClause2 THEN "BSD-Source-Code" ELSE ""
    ELSE ""

(* Lines 105-119: the kind of a BSD-like text, "" when no clause           *)
(* combination is known (bsd = False).                                     *)
bsd_kind(f) ==
    IF f.hasBSDClause1
    THEN IF f.hasBSDClause2
         THEN IF f.hasBSDClause3 THEN "BSD-3-Clause" ELSE "BSD-2-Clause"
         ELSE IF f.hasBSDClause3 THEN "BSD-Source-Code" ELSE ""
    ELSE ""

(* identify_license without the exit of lines 116-118: an unknown clause   *)
(* combination is returned as an unknown license.                          *)
identify_license_no_exit(text) ==
    LET r == identify_loop(text, 1, NoFlags)
    IN  IF r.ret # "" THEN [exit |-> FALSE, lic |-> r.ret]
        ELSE IF r.flags.hasBSDStart
             THEN [exit |-> FALSE, lic |-> bsd_kind(r.flags)]
             ELSE [exit |-> FALSE, lic |-> ""]

(* The result: exit is TRUE when the function ends the run (exit(1) at     *)
(* line 118), lic is the value returned otherwise ("" for an unknown       *)
(* license).                                                               *)
identify_license(text) ==
    LET r == identify_loop(text, 1, NoFlags)
    IN  IF r.ret # "" THEN [exit |-> FALSE, lic |-> r.ret]
        ELSE IF r.flags.hasBSDStart
             THEN IF bsd_kind(r.flags) = ""
                  THEN [exit |-> TRUE, lic |-> ""]
                  ELSE [exit |-> FALSE, lic |-> bsd_kind(r.flags)]
             ELSE [exit |-> FALSE, lic |-> ""]

-----------------------------------------------------------------------------
(* Comment styles, lines 125-161.                                          *)

has_hash_comment_style(f) == f \in {".mk", "Makefile", ".py", ".sh"}

has_c_comment_style(f) == f \in {".c", ".h", ".ld", ".S"}

is_start_of_comment(f, line) ==
    IF has_c_comment_style(f) THEN SlashStar \in line.ph
    ELSE IF has_hash_comment_style(f) THEN Hash \in line.ph
    ELSE FALSE

comment_prefix(f) ==
    IF has_c_comment_style(f) THEN " *"
    ELSE IF has_hash_comment_style(f) THEN "#"
    ELSE ""

(* The lines the tool writes. A string of the code is the sequence of the  *)
(* lines it holds: '' is <<>>.                                             *)

(* '/*\n': under the prefix ' *' nothing follows the first two characters. *)
OpenLine == [ph |-> {SlashStar}, spdx |-> <<>>, blank |-> TRUE]
(* ' */\n': '/' follows the first two characters.                          *)
CloseLine == [ph |-> {}, spdx |-> <<>>, blank |-> FALSE]
(* '#\n'                                                                   *)
HashLine == [ph |-> {Hash}, spdx |-> <<>>, blank |-> TRUE]
(* ' *\n'                                                                  *)
StarLine == [ph |-> {}, spdx |-> <<>>, blank |-> TRUE]

after_comment(f) ==
    IF has_c_comment_style(f) THEN <<CloseLine>>
    ELSE IF has_hash_comment_style(f) THEN <<HashLine>>
    ELSE <<>>

before_comment(f) ==
    IF has_c_comment_style(f) THEN <<OpenLine>> ELSE <<>>

(* comment_prefix(file) + '\n', line 267.                                  *)
prefix_line(f) ==
    IF has_c_comment_style(f) THEN <<StarLine>> ELSE <<HashLine>>

(* comment + ' SPDX-License-Identifier: ' + lic + '\n', line 325.          *)
tag_line(prefix, lic) ==
    [ph |-> IF prefix = "#" THEN {Hash} ELSE {},
     spdx |-> <<lic>>, blank |-> FALSE]

(* is_blank, lines 297-299.                                                *)
is_blank(line) == line.blank

-----------------------------------------------------------------------------
(* file_props, lines 164-274.                                              *)

(* Lines 165-168, with the two keys lines 187 and 251 add.                 *)
props0 ==
    [licenses |-> {}, lic_start_end |-> <<>>, SPDX_IDs |-> {},
     arr |-> FALSE, spdx_insertion |-> 0, spdx_insertion_before |-> FALSE,
     spdx_insert_before |-> <<>>, spdx_insert_after |-> <<>>,
     multiple_copyright_blocks |-> FALSE,
     commentPrefix |-> "", pureLinaroCopyright |-> FALSE]

(* Lines 169-179.                                                          *)
sc0 ==
    [lineno |-> 0, hasLinaroCopyright |-> FALSE, hasOtherCopyright |-> FALSE,
     in_license |-> 0, text |-> <<>>, last_copyright |-> 0,
     first_comment |-> 0, copyright_state |-> 0,
     blank_line_pending |-> FALSE,
     blank_line_in_first_copyright_block |-> FALSE]

call0 == [made |-> FALSE, text |-> <<>>, exit |-> FALSE, lic |-> ""]

rw0 == [lineno |-> 0, out |-> <<>>, modified |-> FALSE,
        dropped |-> 0, written |-> 0]

(* props['lic_start_end'][lic] = [first, last], line 225.                  *)
set_range(d, lic, first, last) ==
    [k \in (DOMAIN d) \cup {lic} |->
        IF k = lic THEN <<first, last>> ELSE d[k]]

(* The tracker with the test of line 197 turned into "not in state 1": a   *)
(* 'Copyright' line met after the first block opens a block again.         *)
track_copyright_reopens(s, p, lineno, line) ==
    LET isCopyright == Copyright \in line.ph
        state1 == IF isCopyright /\ s.copyright_state # 1
                  THEN 1 ELSE s.copyright_state
        multiple == p.multiple_copyright_blocks
                    \/ (isCopyright /\ s.copyright_state = 2)
        legal == isCopyright \/ AllRightsReserved \in line.ph
        in1 == state1 = 1
    IN  [hasLinaroCopyright |->
            s.hasLinaroCopyright \/ (isCopyright /\ Linaro \in line.ph),
         hasOtherCopyright |->
            s.hasOtherCopyright \/ (isCopyright /\ Linaro \notin line.ph),
         multiple_copyright_blocks |-> multiple,
         last_copyright |->
            IF in1 /\ legal THEN lineno ELSE s.last_copyright,
         blank_line_in_first_copyright_block |->
            IF in1 /\ legal /\ s.blank_line_pending
            THEN TRUE ELSE s.blank_line_in_first_copyright_block,
         blank_line_pending |->
            IF in1 /\ ~legal /\ is_blank(line)
            THEN TRUE ELSE s.blank_line_pending,
         copyright_state |->
            IF in1 /\ ~legal /\ ~is_blank(line) THEN 2 ELSE state1]

(* Lines 195-214: the copyright-block tracker on one line.                 *)
track_copyright(s, p, lineno, line) ==
    LET isCopyright == Copyright \in line.ph
        state1 == IF isCopyright /\ s.copyright_state = 0
                  THEN 1 ELSE s.copyright_state
        multiple == p.multiple_copyright_blocks
                    \/ (isCopyright /\ s.copyright_state = 2)
        legal == isCopyright \/ AllRightsReserved \in line.ph
        in1 == state1 = 1
    IN  [hasLinaroCopyright |->
            s.hasLinaroCopyright \/ (isCopyright /\ Linaro \in line.ph),
         hasOtherCopyright |->
            s.hasOtherCopyright \/ (isCopyright /\ Linaro \notin line.ph),
         multiple_copyright_blocks |-> multiple,
         last_copyright |->
            IF in1 /\ legal THEN lineno ELSE s.last_copyright,
         blank_line_in_first_copyright_block |->
            IF in1 /\ legal /\ s.blank_line_pending
            THEN TRUE ELSE s.blank_line_in_first_copyright_block,
         blank_line_pending |->
            IF in1 /\ ~legal /\ is_blank(line)
            THEN TRUE ELSE s.blank_line_pending,
         copyright_state |->
            IF in1 /\ ~legal /\ ~is_blank(line) THEN 2 ELSE state1]

is_license_start(line) ==
    BSDStart \in line.ph \/ ZlibStart \in line.ph \/ ISCStart \in line.ph

is_license_end(line) ==
    BSDEnd \in line.ph \/ ZlibEnd \in line.ph \/ ISCEnd \in line.ph

(* track_license without the test of line 217: a start phrase opens a new  *)
(* span over the open one.                                                 *)
track_license_no_dup(s, p, lineno, line) ==
    LET opened == IF is_license_start(line) THEN lineno ELSE s.in_license
        ends == is_license_end(line)
        id == identify_license(s.text)
        found == ends /\ ~id.exit /\ id.lic # ""
        in_license == IF ends THEN 0 ELSE opened
        text0 == IF ends THEN <<>> ELSE s.text
    IN  [dup |-> FALSE,
         called |-> ends,
         id |-> id,
         licenses |-> IF found THEN p.licenses \cup {id.lic} ELSE p.licenses,
         lic_start_end |->
            IF found THEN set_range(p.lic_start_end, id.lic, opened, lineno)
            ELSE p.lic_start_end,
         in_license |-> in_license,
         text |-> IF in_license # 0 THEN Append(text0, line) ELSE text0]

(* track_license without the reset of line 227: the captured text is kept  *)
(* after the span has ended.                                               *)
track_license_keeps_text(s, p, lineno, line) ==
    LET dup == is_license_start(line) /\ s.in_license # 0
        opened == IF is_license_start(line) THEN lineno ELSE s.in_license
        ends == is_license_end(line)
        id == identify_license(s.text)
        found == ends /\ ~id.exit /\ id.lic # ""
        in_license == IF ends THEN 0 ELSE opened
    IN  [dup |-> dup,
         called |-> ~dup /\ ends,
         id |-> id,
         licenses |-> IF found THEN p.licenses \cup {id.lic} ELSE p.licenses,
         lic_start_end |->
            IF found THEN set_range(p.lic_start_end, id.lic, opened, lineno)
            ELSE p.lic_start_end,
         in_license |-> in_license,
         text |-> IF in_license # 0 THEN Append(s.text, line) ELSE s.text]

(* Lines 216-230: the license span on one line. dup is the exit of line    *)
(* 219; id is the call of identify_license of line 222, made on an end     *)
(* phrase only.                                                            *)
track_license(s, p, lineno, line) ==
    LET dup == is_license_start(line) /\ s.in_license # 0
        opened == IF is_license_start(line) THEN lineno ELSE s.in_license
        ends == is_license_end(line)
        id == identify_license(s.text)
        found == ends /\ ~id.exit /\ id.lic # ""
        in_license == IF ends THEN 0 ELSE opened
        text0 == IF ends THEN <<>> ELSE s.text
    IN  [dup |-> dup,
         called |-> ~dup /\ ends,
         id |-> id,
         licenses |-> IF found THEN p.licenses \cup {id.lic} ELSE p.licenses,
         lic_start_end |->
            IF found THEN set_range(p.lic_start_end, id.lic, opened, lineno)
            ELSE p.lic_start_end,
         in_license |-> in_license,
         text |-> IF in_license # 0 THEN Append(text0, line) ELSE text0]

(* Lines 232-235: the single-line cues.                                    *)
cue_licenses(line) ==
    (IF Apache2 \in line.ph THEN {"Apache-2.0"} ELSE {})
    \cup (IF ZlibRef \in line.ph THEN {"Zlib"} ELSE {})

(* track_spdx with the identifier stored in place of the earlier ones.     *)
track_spdx_overwrite(p, line) ==
    LET id == SPDX_ID(line)
    IN  [unknown |-> id # "" /\ id \notin knownSPDXIDs,
         SPDX_IDs |-> IF id # "" THEN {id} ELSE p.SPDX_IDs]

(* Lines 237-243: unknown is the exit of line 242.                         *)
track_spdx(p, line) ==
    LET id == SPDX_ID(line)
    IN  [unknown |-> id # "" /\ id \notin knownSPDXIDs,
         SPDX_IDs |-> IF id # "" THEN p.SPDX_IDs \cup {id} ELSE p.SPDX_IDs]

(* Lines 181-187 and the tests of process, lines 367-369, before them.     *)
ignore == {".new", ".png", ".odg", ".checkpatch", ".txt", ".doc", ".html",
           ".dot", ".svg", ".msc", ".xml", ".md", "LICENSE", ".license",
           ".pem", ".orig", ".patch", ".xsl", ".a"}

Start ==
    /\ pc = "start"
    /\ IF file \in ignore
       THEN /\ pc' = "returned"
            /\ UNCHANGED <<props, err>>
       ELSE IF comment_prefix(file) = ""
       THEN /\ pc' = "exit"
            /\ err' = "unknown comment style"
            /\ UNCHANGED props
       ELSE /\ pc' = "scan"
            /\ props' = [props EXCEPT !.commentPrefix = comment_prefix(file)]
            /\ UNCHANGED err
    /\ UNCHANGED <<file, content, newfile, args, run, sc, call, rw, reported,
                   mode, content0, hist>>

(* One iteration of the loop of lines 190-246.                             *)
ScanLine ==
    /\ pc = "scan"
    /\ sc.lineno < Len(content)
    /\ LET lineno == sc.lineno + 1
           line == content[lineno]
           first_comment ==
               IF sc.first_comment = 0 /\ is_start_of_comment(file, line)
               THEN lineno ELSE sc.first_comment
           c == track_copyright(sc, props, lineno, line)
           l == track_license(sc, props, lineno, line)
           t == track_spdx(props, line)
           fatal == IF l.dup THEN "duplicate license start"
                    ELSE IF l.called /\ l.id.exit THEN "unknown BSD-like license"
                    ELSE IF t.unknown THEN "unknown SPDX license identifier"
                    ELSE ""
       IN  /\ call' = IF l.called
                      THEN [made |-> TRUE, text |-> sc.text,
                            exit |-> l.id.exit, lic |-> l.id.lic]
                      ELSE call
           /\ IF fatal # ""
              THEN /\ pc' = "exit"
                   /\ err' = fatal
                   /\ sc' = [sc EXCEPT !.lineno = lineno]
                   /\ UNCHANGED props
              ELSE /\ pc' = pc
                   /\ err' = err
                   /\ sc' = [lineno |-> lineno,
                             hasLinaroCopyright |-> c.hasLinaroCopyright,
                             hasOtherCopyright |-> c.hasOtherCopyright,
                             in_license |-> l.in_license,
                             text |-> l.text,
                             last_copyright |-> c.last_copyright,
                             first_comment |-> first_comment,
                             copyright_state |-> c.copyright_state,
                             blank_line_pending |-> c.blank_line_pending,
                             blank_line_in_first_copyright_block |->
                                 c.blank_line_in_first_copyright_block]
                   /\ props' = [props EXCEPT
                        !.multiple_copyright_blocks = c.multiple_copyright_blocks,
                        !.licenses = l.licenses \cup cue_licenses(line),
                        !.lic_start_end = l.lic_start_end,
                        !.SPDX_IDs = t.SPDX_IDs,
                        !.arr = props.arr \/ AllRightsReserved \in line.ph]
    /\ UNCHANGED <<file, content, newfile, args, run, rw, reported,
                   mode, content0, hist>>

(* Lines 248-274: the insertion plan. The message of line 249 does not end *)
(* the run.                                                                *)
(* The plan without the test of line 253: the tag always goes after the    *)
(* first copyright block when there is one.                                *)
plan_after_copyright(f, s, p) ==
    IF s.last_copyright # 0
    THEN [spdx_insertion |-> s.last_copyright,
          spdx_insertion_before |-> FALSE,
          spdx_insert_before |->
              IF s.blank_line_in_first_copyright_block
              THEN prefix_line(f) ELSE <<>>,
          spdx_insert_after |-> <<>>]
    ELSE [spdx_insertion |-> s.first_comment,
          spdx_insertion_before |-> TRUE,
          spdx_insert_before |-> before_comment(f),
          spdx_insert_after |-> after_comment(f)]

plan(f, s, p) ==
    IF Cardinality(p.licenses) > 1 \/ p.multiple_copyright_blocks
    THEN [spdx_insertion |-> s.first_comment,
          spdx_insertion_before |-> TRUE,
          spdx_insert_before |-> before_comment(f),
          spdx_insert_after |-> after_comment(f)]
    ELSE IF s.last_copyright # 0
    THEN [spdx_insertion |-> s.last_copyright,
          spdx_insertion_before |-> FALSE,
          spdx_insert_before |->
              IF s.blank_line_in_first_copyright_block
              THEN prefix_line(f) ELSE <<>>,
          spdx_insert_after |-> <<>>]
    ELSE [spdx_insertion |-> s.first_comment,
          spdx_insertion_before |-> TRUE,
          spdx_insert_before |-> before_comment(f),
          spdx_insert_after |-> after_comment(f)]

ScanEnd ==
    /\ pc = "scan"
    /\ sc.lineno = Len(content)
    /\ LET q == plan(file, sc, props)
       IN  props' = [props EXCEPT
               !.pureLinaroCopyright =
                   sc.hasLinaroCopyright /\ ~sc.hasOtherCopyright,
               !.spdx_insertion = q.spdx_insertion,
               !.spdx_insertion_before = q.spdx_insertion_before,
               !.spdx_insert_before = q.spdx_insert_before,
               !.spdx_insert_after = q.spdx_insert_after]
    /\ pc' = "scanned"
    /\ UNCHANGED <<file, content, newfile, args, run, sc, call, rw, reported,
                   err, mode, content0, hist>>

-----------------------------------------------------------------------------
(* process, lines 364-389, after the scan.                                 *)

(* mistagged as an inequality of the two sets.                             *)
is_mistagged_by_inequality(p) == p.licenses # p.SPDX_IDs

(* Lines 376-380: the loop that sets mistagged.                            *)
is_mistagged(p) == \E lic \in p.licenses : lic \notin p.SPDX_IDs

(* Lines 373-374: the file is kept under --unlicensed-only.                *)
is_unlicensed(p) == ~(p.licenses # {} \/ p.SPDX_IDs # {})

(* Lines 371-386: TRUE when one of the filters returns.                    *)
filtered_out(a, p) ==
    \/ a.linaro_only /\ ~p.pureLinaroCopyright
    \/ a.unlicensed_only /\ ~is_unlicensed(p)
    \/ a.mistagged_only /\ ~is_mistagged(p)
    \/ a.arr_only /\ ~p.arr
    \/ a.full_license_only /\ p.licenses = {}

(* props['lic_start_end'] and props['lic_start_end'][lic], lines 283 and   *)
(* 306, over every lic of props['licenses']: the subscript raises KeyError *)
(* when the dictionary is not empty and does not hold lic.                 *)
lookup_fails(p) ==
    /\ DOMAIN p.lic_start_end # {}
    /\ \E lic \in p.licenses : lic \notin DOMAIN p.lic_start_end

(* Line 334.                                                               *)
any_action(a) == a.strip_arr \/ a.strip_license_text \/ a.add_spdx

Process ==
    /\ pc = "scanned"
    /\ IF filtered_out(args, props)
       THEN /\ pc' = "returned"
            /\ UNCHANGED <<reported, err, newfile>>
       ELSE /\ reported' = TRUE
            /\ IF args.show /\ lookup_fails(props)
               THEN /\ pc' = "exit"
                    /\ err' = "KeyError"
                    /\ UNCHANGED newfile
               ELSE IF ~any_action(args)
               THEN /\ pc' = "done"
                    /\ UNCHANGED <<err, newfile>>
               ELSE /\ pc' = "rewrite"
                    /\ newfile' = TRUE
                    /\ UNCHANGED err
    /\ UNCHANGED <<file, content, args, run, sc, props, call, rw, mode,
                   content0, hist>>

-----------------------------------------------------------------------------
(* generate_new and its helpers, lines 302-362.                            *)

(* is_license_line without the is_blank test of line 311.                  *)
is_license_line_or_before(lineno, line, p) ==
    \E lic \in p.licenses \cap DOMAIN p.lic_start_end :
        LET first == p.lic_start_end[lic][1]
            last == p.lic_start_end[lic][2]
        IN  \/ first <= lineno /\ lineno <= last
            \/ first - 1 = lineno

(* is_license_line, lines 302-313, when no lookup fails.                   *)
is_license_line(lineno, line, p) ==
    \E lic \in p.licenses \cap DOMAIN p.lic_start_end :
        LET first == p.lic_start_end[lic][1]
            last == p.lic_start_end[lic][2]
        IN  \/ first <= lineno /\ lineno <= last
            \/ first - 1 = lineno /\ is_blank(line)

(* sorted(props['licenses']), line 321: the order of Python strings on the *)
(* kinds the scan can detect.                                              *)
sorted_kinds == <<"Apache-2.0", "BSD-2-Clause", "BSD-3-Clause",
                  "BSD-Source-Code", "ISC", "Zlib">>

RECURSIVE reverse(_)
reverse(q) == IF q = <<>> THEN <<>> ELSE Append(reverse(Tail(q)), Head(q))

(* The kinds of S in descending order.                                     *)
sorted_descending(S) == reverse(SelectSeq(sorted_kinds, LAMBDA k : k \in S))

sorted(S) == SelectSeq(sorted_kinds, LAMBDA k : k \in S)

RECURSIVE tag_lines(_, _)
tag_lines(prefix, ids) ==
    IF ids = <<>> THEN <<>>
    ELSE <<tag_line(prefix, Head(ids))>> \o tag_lines(prefix, Tail(ids))

(* insert_spdx, lines 317-331: what it writes to out, and what it returns. *)
insert_spdx(p) ==
    LET missing == sorted(p.licenses \ p.SPDX_IDs)
        modified == missing # <<>>
    IN  [modified |-> modified,
         written |-> Len(missing),
         lines |-> IF modified
                   THEN p.spdx_insert_before
                        \o tag_lines(p.commentPrefix, missing)
                        \o p.spdx_insert_after
                   ELSE <<>>]

(* The test of line 344 with a line that states a copyright dropped too.   *)
is_arr_line_or_copyright(a, line) ==
    a.strip_arr /\ (AllRightsReserved \in line.ph \/ Copyright \in line.ph)

(* The test of line 344.                                                   *)
is_arr_line(a, line) == a.strip_arr /\ AllRightsReserved \in line.ph

(* One iteration of the loop of lines 342-356. dropped and written count   *)
(* the lines the pass has dropped and the tag lines it has written.        *)
RewriteLine ==
    /\ pc = "rewrite"
    /\ rw.lineno < Len(content)
    /\ LET lineno == rw.lineno + 1
           line == content[lineno]
           here == args.add_spdx /\ lineno = props.spdx_insertion
           ins == insert_spdx(props)
       IN  IF is_arr_line(args, line)
           THEN /\ rw' = [rw EXCEPT !.lineno = lineno, !.modified = TRUE,
                                    !.dropped = rw.dropped + 1]
                /\ UNCHANGED <<pc, err>>
           ELSE IF args.strip_license_text /\ lookup_fails(props)
           THEN /\ pc' = "exit"
                /\ err' = "KeyError"
                /\ rw' = [rw EXCEPT !.lineno = lineno]
           ELSE IF args.strip_license_text
                   /\ is_license_line(lineno, line, props)
           THEN /\ rw' = [rw EXCEPT !.lineno = lineno, !.modified = TRUE,
                                    !.dropped = rw.dropped + 1]
                /\ UNCHANGED <<pc, err>>
           ELSE /\ rw' = [lineno |-> lineno,
                          out |-> IF here /\ props.spdx_insertion_before
                                  THEN rw.out \o ins.lines \o <<line>>
                                  ELSE IF here
                                  THEN rw.out \o <<line>> \o ins.lines
                                  ELSE Append(rw.out, line),
                          modified |-> IF here THEN ins.modified
                                       ELSE rw.modified,
                          dropped |-> rw.dropped,
                          written |-> IF here THEN rw.written + ins.written
                                      ELSE rw.written]
                /\ UNCHANGED <<pc, err>>
    /\ UNCHANGED <<file, content, newfile, args, run, sc, props, call,
                   reported, mode, content0, hist>>

(* The permission bits open(newfile, 'w') gives a new file.                *)
NewFileMode == "0644"

(* os.rename(newfile, file), line 359: the file gets the new file's lines  *)
(* and permission bits.                                                    *)
rename(out) == [content |-> out, mode |-> NewFileMode]

(* Lines 357-362.                                                          *)
replace(out, m) == [rename(out) EXCEPT !.mode = m]

Commit ==
    /\ pc = "rewrite"
    /\ rw.lineno = Len(content)
    /\ IF rw.modified
       THEN LET r == replace(rw.out, mode)
            IN  /\ content' = r.content
                /\ mode' = r.mode
       ELSE UNCHANGED <<content, mode>>
    /\ newfile' = FALSE
    /\ pc' = "done"
    /\ UNCHANGED <<file, args, run, sc, props, call, rw, reported, err,
                   content0, hist>>

-----------------------------------------------------------------------------
(* The tool is started again on the file it left.                          *)

Summary ==
    [before |-> content0, after |-> content, pc |-> pc, props |-> props,
     rw |-> rw, reported |-> reported]

NextRun ==
    /\ pc \in {"done", "returned"}
    /\ run < MaxRuns
    /\ run' = run + 1
    /\ hist' = Append(hist, Summary)
    /\ content0' = content
    /\ pc' = "start"
    /\ sc' = sc0
    /\ props' = props0
    /\ call' = call0
    /\ rw' = rw0
    /\ reported' = FALSE
    /\ UNCHANGED <<file, content, newfile, args, err, mode>>

-----------------------------------------------------------------------------
(* The command lines and the files of the model.                           *)

NoArgs ==
    [show |-> FALSE, mistagged_only |-> FALSE, unlicensed_only |-> FALSE,
     full_license_only |-> FALSE, linaro_only |-> FALSE, arr_only |-> FALSE,
     strip_arr |-> FALSE, strip_license_text |-> FALSE, add_spdx |-> FALSE]

(* The command line that sets exactly the options of S.                    *)
Args(S) == [o \in DOMAIN NoArgs |-> o \in S]

Ln(ph) == [ph |-> ph, spdx |-> <<>>, blank |-> FALSE]
Tag(ph, ids) == [ph |-> ph, spdx |-> ids, blank |-> FALSE]

(* Lines of a file with C comments. *)
CLines ==
    {OpenLine,
     Ln({Copyright, Linaro}),
     Ln({Copyright}),
     Ln({AllRightsReserved}),
     Ln({Apache2}),
     Tag({}, <<"Apache-2.0">>),
     Tag({}, <<"Zlib">>)}

(* Lines of a shell script: a comment line holds '#'. *)
ShLines ==
    {Ln({Hash, Shebang}),
     Ln({}),
     Ln({Hash, Copyright, Linaro}),
     Ln({Hash, AllRightsReserved}),
     Ln({Hash, Apache2}),
     Tag({Hash}, <<"Apache-2.0">>),
     Tag({Hash}, <<"GPL-2.0">>)}

ArgSets ==
    {Args({"add_spdx"}), Args({"strip_arr"}),
     Args({"strip_arr", "linaro_only"}), Args({"strip_arr", "add_spdx"}),
     Args({"mistagged_only"}), Args({"unlicensed_only"})}

Files(Lines, max) == UNION {[1..n -> Lines] : n \in 0..max}

(* The permission bits of the file before the tool runs: a script is       *)
(* executable.                                                             *)
mode0 == IF has_hash_comment_style(file) THEN "0755" ELSE "0644"

InitWith(Names, Choices, Contents) ==
    /\ file \in Names
    /\ content \in Contents
    /\ args \in Choices
    /\ newfile = FALSE
    /\ pc = "start"
    /\ run = 1
    /\ sc = sc0
    /\ props = props0
    /\ call = call0
    /\ rw = rw0
    /\ reported = FALSE
    /\ err = ""
    /\ mode = mode0
    /\ content0 = content
    /\ hist = <<>>

Next ==
    \/ Start
    \/ ScanLine
    \/ ScanEnd
    \/ Process
    \/ RewriteLine
    \/ Commit
    \/ NextRun

(* Files that hold copyright lines, single-line cues and tags.             *)
Init ==
    \/ InitWith({".c"}, ArgSets, Files(CLines, MaxLen))
    \/ InitWith({".sh"}, ArgSets, Files(ShLines, MaxLen))

Spec == Init /\ [][Next]_vars

(* Files that hold a BSD text, clause by clause.                           *)
BSDLines ==
    {Ln({BSDStart}), Ln({BSDClause1}), Ln({BSDClause2}), Ln({BSDClause3}),
     Ln({BSDClause3_1}), Ln({BSDEnd})}

InitBSD == InitWith({".c"}, {Args({"add_spdx"})}, Files(BSDLines, MaxLongLen))

SpecBSD == InitBSD /\ [][Next]_vars

(* Files that hold a Zlib text and an ISC text.                            *)
DualLines ==
    {OpenLine, Ln({SlashStar, DualLicen}), Ln({ZlibStart}), Ln({ZlibEnd}),
     Ln({ISCStart}), Ln({ISCEnd})}

InitDual == InitWith({".c"}, {Args({"add_spdx"})}, Files(DualLines, MaxLongLen))

SpecDual == InitDual /\ [][Next]_vars

(* Files that hold license texts, a single-line cue and blank lines.       *)
SpanLines ==
    {OpenLine, StarLine, Ln({ZlibStart}), Ln({ZlibEnd}), Ln({ISCStart}),
     Ln({ISCEnd}), Ln({Apache2})}

SpanArgSets ==
    {Args({"strip_license_text"}), Args({"add_spdx"}),
     Args({"strip_license_text", "add_spdx"}), Args({"show"})}

InitSpan == InitWith({".c"}, SpanArgSets, Files(SpanLines, MaxLen))

SpecSpan == InitSpan /\ [][Next]_vars

(* Headers in which 'All rights reserved' also ends a copyright line.      *)
ArrLines ==
    {OpenLine, Ln({Copyright, AllRightsReserved}), Ln({Copyright, Linaro}),
     Ln({AllRightsReserved}), Ln({Apache2}), Tag({}, <<"Apache-2.0">>)}

ArrArgSets == {Args({"strip_arr"}), Args({"strip_arr", "add_spdx"})}

InitArr == InitWith({".c"}, ArrArgSets, Files(ArrLines, MaxLen))

SpecArr == InitArr /\ [][Next]_vars

-----------------------------------------------------------------------------
(* The claims.                                                             *)

has_phrase(text, p) == \E i \in 1..Len(text) : p \in text[i].ph

has_endorsement(text) ==
    \/ has_phrase(text, BSDClause3)
    \/ has_phrase(text, BSDClause3_1)
    \/ has_phrase(text, BSDClause3_2)

(* The last call of identify_license was on a span that holds the BSD      *)
(* start phrase and neither the Zlib nor the ISC opening phrase.           *)
bsd_span ==
    /\ call.made
    /\ has_phrase(call.text, BSDStart)
    /\ ~has_phrase(call.text, ZlibStart)
    /\ ~has_phrase(call.text, ISCStart)

returned(kind) == ~call.exit /\ call.lic = kind

(* C1: on a captured span with the BSD start phrase and neither the Zlib   *)
(* nor the ISC opening phrase, identify_license returns BSD-3-Clause when  *)
(* clauses 1, 2 and an endorsement clause are present, BSD-2-Clause when   *)
(* clauses 1 and 2 are present and no endorsement clause is, and           *)
(* BSD-Source-Code when only clause 1 and an endorsement clause are.       *)
C1_BSDKinds ==
    bsd_span =>
        LET c1 == has_phrase(call.text, BSDClause1)
            c2 == has_phrase(call.text, BSDClause2)
            c3 == has_endorsement(call.text)
        IN  /\ (c1 /\ c2 /\ c3 => returned("BSD-3-Clause"))
            /\ (c1 /\ c2 /\ ~c3 => returned("BSD-2-Clause"))
            /\ (c1 /\ ~c2 /\ c3 => returned("BSD-Source-Code"))

C1_Witness ==
    /\ bsd_span
    /\ has_phrase(call.text, BSDClause1)
    /\ has_phrase(call.text, BSDClause2)
    /\ has_endorsement(call.text)
    /\ "BSD-3-Clause" \in props.licenses


(* C2: for a file whose first line is a shebang, the insertion line the    *)
(* scan plans is line 2, never line 1, and after an add-SPDX rewrite the   *)
(* shebang is still the first line of the file.                            *)
C2_ShebangKeepsLine1 ==
    /\ (pc = "scanned" /\ content # <<>> /\ Shebang \in content[1].ph
            => props.spdx_insertion = 2)
    /\ (pc = "done" /\ args.add_spdx /\ content0 # <<>>
            /\ Shebang \in content0[1].ph
            => Shebang \in content[1].ph)

only(S) == args = Args(S)

(* This run is the second of two runs that both went through the rewrite   *)
(* pass.                                                                   *)
second_pass_done ==
    /\ pc = "done"
    /\ run = 2
    /\ hist[1].pc = "done"

(* C3: the add-SPDX rewrite run twice in a row: the second run finds every *)
(* detected kind tagged, writes no tag line, reports no modification and   *)
(* leaves the file as the first run left it.                               *)
C3_AddSpdxIdempotent ==
    second_pass_done /\ only({"add_spdx"}) =>
        /\ ~is_mistagged(props)
        /\ rw.written = 0
        /\ ~rw.modified
        /\ content = hist[1].after

(* The part of C3 that does not depend on a tag having been written: the   *)
(* second run writes nothing and leaves the file as it found it.           *)
SecondAddSpdxRunChangesNothing ==
    second_pass_done /\ only({"add_spdx"}) =>
        /\ rw.written = 0
        /\ ~rw.modified
        /\ content = hist[1].after

arr_lines(c) == {i \in 1..Len(c) : AllRightsReserved \in c[i].ph}

remove_at(c, i) == SubSeq(c, 1, i - 1) \o SubSeq(c, i + 1, Len(c))

(* C4: the strip-ARR rewrite of a file with exactly one 'All rights        *)
(* reserved' line leaves the file without that line and with every other   *)
(* line in order, and replaces the file; the strip-ARR rewrite of the      *)
(* result modifies nothing.                                                *)
C4_StripArrOnce ==
    /\ (pc = "done" /\ run = 1 /\ only({"strip_arr"})
            /\ Cardinality(arr_lines(content0)) = 1
            => /\ rw.modified
               /\ \A i \in arr_lines(content0) : content = remove_at(content0, i))
    /\ (second_pass_done /\ only({"strip_arr"})
            /\ Cardinality(arr_lines(hist[1].before)) = 1
            => /\ ~rw.modified
               /\ rw.dropped = 0
               /\ content = hist[1].after)

C4_Witness ==
    /\ second_pass_done
    /\ only({"strip_arr"})
    /\ Cardinality(arr_lines(hist[1].before)) = 1
    /\ Len(hist[1].before) = 3
    /\ Len(content) = 2

(* Two license blocks of different kinds were recognized in a file without *)
(* a tag, and the add-SPDX rewrite has run.                                *)
two_blocks ==
    /\ pc = "done"
    /\ run = 1
    /\ only({"add_spdx"})
    /\ Cardinality(props.licenses) = 2
    /\ DOMAIN props.lic_start_end = props.licenses
    /\ props.SPDX_IDs = {}

expression(ids, op) == <<"(", ids[1], op, ids[2], ")">>

all_tagged(p) == \A k \in p.licenses : k \in p.SPDX_IDs

(* The scan of this run has completed.                                     *)
scan_done == pc \in {"scanned", "rewrite", "done", "returned"}

(* process has gone through its filters.                                   *)
filtered == pc \in {"rewrite", "done", "returned"}

(* What the filter stage reports under --mistagged-only and under          *)
(* --unlicensed-only, and that the two predicates exclude each other.      *)
C6_Predicates ==
    /\ (filtered /\ only({"mistagged_only"}) =>
            (reported <=> \E k \in props.licenses : k \notin props.SPDX_IDs))
    /\ (filtered /\ only({"unlicensed_only"}) =>
            (reported <=> props.licenses = {} /\ props.SPDX_IDs = {}))
    /\ (scan_done => ~(is_mistagged(props) /\ is_unlicensed(props)))

(* C6 as stated: mistagged exactly when some detected kind is not among    *)
(* the existing identifiers, unlicensed exactly when there is no detected  *)
(* kind and no existing tag, never both, and both false whenever every     *)
(* detected kind has a matching existing tag.                              *)
C6_BothFalseWhenAllTagged ==
    /\ C6_Predicates
    /\ (scan_done /\ all_tagged(props) =>
            ~is_mistagged(props) /\ ~is_unlicensed(props))

(* C6 as amended: the same, with both predicates false whenever every      *)
(* detected kind has a matching existing tag and the file has at least one *)
(* detected kind or existing tag.                                          *)
C6_BothFalseWhenTagged ==
    /\ C6_Predicates
    /\ (scan_done /\ all_tagged(props)
            /\ (props.licenses # {} \/ props.SPDX_IDs # {}) =>
            ~is_mistagged(props) /\ ~is_unlicensed(props))

C6_Witness ==
    /\ pc = "returned"
    /\ only({"mistagged_only"})
    /\ props.licenses = {"Apache-2.0"}
    /\ props.SPDX_IDs = {"Apache-2.0", "Zlib"}

(* The rewrite pass of generate_new has ended, by its last line or by an   *)
(* exception.                                                              *)
pass_ended ==
    \/ pc = "done" /\ any_action(args)
    \/ pc = "exit" /\ err = "KeyError" /\ rw.lineno > 0

(* C7: the patched copy replaces the file, which keeps its permission      *)
(* bits, only if the pass dropped a line or wrote a tag line; in every     *)
(* other case the temporary copy is removed and the file is unchanged.     *)
C7_ReplaceOnlyIfModified ==
    /\ (content # content0 =>
            rw.dropped + rw.written > 0 /\ mode = mode0)
    /\ (pass_ended /\ rw.dropped + rw.written = 0 =>
            ~newfile /\ content = content0)

(* The lines of the file this run has scanned that hold a tag the scan     *)
(* reads.                                                                  *)
tags_scanned == {i \in 1..sc.lineno : SPDX_ID(content0[i]) # ""}

C9_OneOpenSpan ==
    /\ [](pc = "scan" /\ sc.in_license # 0 =>
            /\ sc.in_license \in 1..sc.lineno
            /\ is_license_start(content[sc.in_license])
            /\ \A j \in (sc.in_license + 1)..sc.lineno :
                  ~is_license_start(content[j]) /\ ~is_license_end(content[j]))
    /\ [][pc = "scan" /\ sc.lineno < Len(content) =>
            LET line == content[sc.lineno + 1]
            IN  /\ (sc.in_license # 0 /\ is_license_start(line) =>
                        pc' = "exit" /\ err' = "duplicate license start")
                /\ (sc.in_license = 0 /\ is_license_end(line) =>
                        /\ pc' = "scan"
                        /\ props'.licenses =
                               props.licenses \cup cue_licenses(line)
                        /\ props'.lic_start_end = props.lic_start_end
                        /\ sc'.in_license = 0)]_vars

C9_Witness ==
    /\ pc = "exit"
    /\ err = "duplicate license start"
    /\ sc.in_license # 0
    /\ is_license_start(content[sc.lineno])

(* C10: a file is rewritten by the strip-ARR or the strip-license-text     *)
(* action only if every copyright line of the file names Linaro.           *)
C10_StripOnlyLinaro ==
    pc = "done" /\ (args.strip_arr \/ args.strip_license_text)
        /\ rw.dropped > 0 /\ content # content0 =>
        \A i \in 1..Len(content0) :
            Copyright \in content0[i].ph => Linaro \in content0[i].ph


(* The clauses of the span of the last call of identify_license make one   *)
(* of the combinations {1,2,3}, {1,2}, {1,3}.                              *)
known_combination ==
    /\ has_phrase(call.text, BSDClause1)
    /\ has_phrase(call.text, BSDClause2) \/ has_endorsement(call.text)

(* C11: on a captured span with the BSD start phrase and neither the Zlib  *)
(* nor the ISC opening phrase, identify_license never returns 'none': it   *)
(* returns a BSD kind for the clause combinations {1,2,3}, {1,2}, {1,3}    *)
(* and ends the run with the unknown-BSD error for every other one, so     *)
(* whenever clauses 1 and 2 are both absent.                               *)
C11_BSDNeverNone ==
    bsd_span =>
        /\ ~(~call.exit /\ call.lic = "")
        /\ (known_combination =>
                /\ ~call.exit
                /\ call.lic \in {"BSD-3-Clause", "BSD-2-Clause",
                                 "BSD-Source-Code"})
        /\ (~known_combination =>
                /\ call.exit
                /\ pc = "exit"
                /\ err = "unknown BSD-like license")
        /\ (~has_phrase(call.text, BSDClause1)
                /\ ~has_phrase(call.text, BSDClause2) => call.exit)

C11_Witness ==
    /\ bsd_span
    /\ ~has_phrase(call.text, BSDClause1)
    /\ ~has_phrase(call.text, BSDClause2)
    /\ has_endorsement(call.text)
    /\ pc = "exit"
    /\ err = "unknown BSD-like license"


(* A copyright or 'All rights reserved' line.                              *)
is_legal(line) == Copyright \in line.ph \/ AllRightsReserved \in line.ph

(* C12: during the scan the copyright tracker only moves 0 -> 1 -> 2 and   *)
(* never decreases; it enters state 1 on the first 'Copyright' line and    *)
(* state 2 on the first following line that is neither a copyright or      *)
(* 'All rights reserved' line nor blank; multiple_copyright_blocks is set  *)
(* exactly when a 'Copyright' line is scanned in state 2, and              *)
(* last_copyright is only updated, to the current line, in state 1.        *)
C12_CopyrightTracker ==
    [][(pc = "scan" /\ pc' = "scan" /\ sc'.lineno = sc.lineno + 1) =>
        LET line == content[sc'.lineno]
            old == sc.copyright_state
            new == sc'.copyright_state
        IN  /\ old \in 0..2 /\ new \in 0..2
            /\ new >= old /\ new <= old + 1
            /\ (old = 0 => (new = 1 <=> Copyright \in line.ph))
            /\ (old = 1 => (new = 2 <=> ~is_legal(line) /\ ~is_blank(line)))
            /\ (props'.multiple_copyright_blocks <=>
                    \/ props.multiple_copyright_blocks
                    \/ (Copyright \in line.ph /\ old = 2))
            /\ (sc'.last_copyright # sc.last_copyright =>
                    /\ new = 1
                    /\ is_legal(line)
                    /\ sc'.last_copyright = sc'.lineno)
            /\ (new = 1 /\ is_legal(line) =>
                    sc'.last_copyright = sc'.lineno)]_vars

(* A second copyright block has been met after the first one was closed    *)
(* by a line of another kind, and the last line of the first block is      *)
(* still the recorded one.                                                 *)
C12_Witness ==
    /\ pc = "scanned"
    /\ sc.copyright_state = 2
    /\ props.multiple_copyright_blocks
    /\ sc.last_copyright >= 2
    /\ \E i \in 1..Len(content) :
        i > sc.last_copyright + 1 /\ Copyright \in content[i].ph


(* The smallest and the largest element of a non-empty set of numbers.     *)
least(S) == CHOOSE i \in S : \A j \in S : i <= j

greatest(S) == CHOOSE i \in S : \A j \in S : j <= i

(* The first line of c that starts a comment in the style of f, 0 if none. *)
first_comment_of(f, c) ==
    LET S == {i \in 1..Len(c) : is_start_of_comment(f, c[i])}
    IN  IF S = {} THEN 0 ELSE least(S)

(* The last copyright or 'All rights reserved' line of the first copyright *)
(* block of c, 0 if c has no 'Copyright' line: the block runs from the     *)
(* first 'Copyright' line up to the first line that is neither legal nor   *)
(* blank.                                                                  *)
first_block_end(c) ==
    LET S == {i \in 1..Len(c) : Copyright \in c[i].ph}
    IN  IF S = {} THEN 0
        ELSE LET first == least(S)
                 stops == {j \in first..Len(c) :
                              ~is_legal(c[j]) /\ ~is_blank(c[j])}
                 stop == IF stops = {} THEN Len(c) + 1 ELSE least(stops)
             IN  greatest({i \in first..(stop - 1) : is_legal(c[i])})

(* The plan of the scan, given the lines that follow the tags in the       *)
(* line-comment style when the tags go before the first comment.           *)
planned_with(hash_after) ==
    scan_done =>
        IF Cardinality(props.licenses) > 1 \/ props.multiple_copyright_blocks
        THEN /\ props.spdx_insertion = first_comment_of(file, content0)
             /\ props.spdx_insertion_before
             /\ (has_c_comment_style(file) =>
                    /\ props.spdx_insert_before = <<OpenLine>>
                    /\ props.spdx_insert_after = <<CloseLine>>)
             /\ (has_hash_comment_style(file) =>
                    /\ props.spdx_insert_before = <<>>
                    /\ props.spdx_insert_after = hash_after)
        ELSE first_block_end(content0) # 0 =>
             /\ props.spdx_insertion = first_block_end(content0)
             /\ ~props.spdx_insertion_before
             /\ props.spdx_insert_after = <<>>

without(c, D) ==
    LET F[i \in 0..Len(c)] ==
            IF i = 0 THEN <<>>
            ELSE IF i \in D THEN F[i - 1] ELSE Append(F[i - 1], c[i])
    IN  F[Len(c)]

(* The positions inside a recorded span, and the blank lines right before  *)
(* the start of one.                                                       *)
in_recorded_span ==
    {i \in 1..Len(content0) :
        \E k \in DOMAIN props.lic_start_end :
            props.lic_start_end[k][1] <= i /\ i <= props.lic_start_end[k][2]}

blank_before_span ==
    {i \in 1..Len(content0) :
        /\ is_blank(content0[i])
        /\ \E k \in DOMAIN props.lic_start_end :
            props.lic_start_end[k][1] - 1 = i}

(* C14: with only the strip-license-text action, the rewritten file is     *)
(* the original lines, in order, minus every line inside a recorded span   *)
(* [start, end] (both included) and minus a blank line at start - 1; no    *)
(* other line is dropped or altered, and before the pass ends the file is  *)
(* the original.                                                           *)
C14_StripLicenseText ==
    only({"strip_license_text"}) =>
        /\ pc = "done" =>
            content = without(content0,
                              in_recorded_span \cup blank_before_span)
        /\ pc # "done" => content = content0

C14_Witness ==
    /\ only({"strip_license_text"})
    /\ pc = "done"
    /\ blank_before_span \ in_recorded_span # {}
    /\ Len(content) >= 1
    /\ Len(content) =
        Len(content0) - Cardinality(in_recorded_span \cup blank_before_span)


(* The lines of c that hold 'All rights reserved' and no copyright.        *)
pure_arr_lines(c) ==
    {i \in 1..Len(c) :
        AllRightsReserved \in c[i].ph /\ Copyright \notin c[i].ph}

copyright_lines(c) == {i \in 1..Len(c) : Copyright \in c[i].ph}

(* C15: the strip-ARR action drops only lines that are pure 'All rights    *)
(* reserved' mentions; a line that holds the phrase together with other    *)
(* legal content, such as a copyright statement, is kept.                  *)
C15_StripOnlyPureArr ==
    only({"strip_arr"}) /\ pc = "done" =>
        /\ content = without(content0, pure_arr_lines(content0))
        /\ Cardinality(copyright_lines(content)) =
            Cardinality(copyright_lines(content0))


(* C16: for any combination of rewrite actions, whenever the pass has      *)
(* dropped at least one line or written at least one tag line, the         *)
(* patched copy replaces the original file: a change made earlier in the   *)
(* pass is never discarded because a later step reports no modification.   *)
C16_ChangesAreKept ==
    pc = "done" /\ any_action(args) /\ (rw.dropped > 0 \/ rw.written > 0) =>
        /\ content = rw.out
        /\ content # content0
        /\ ~newfile


(* C17: after a rewrite that includes add-SPDX, every detected kind that   *)
(* had no matching tag has a tag line in the resulting file, so a scan of  *)
(* the result never reports it as mistagged; also when the planned         *)
(* insertion line is dropped by a strip action or when the file has no     *)
(* comment line and no copyright line.                                     *)
C17_MissingTagsWritten ==
    /\ pc = "done" /\ args.add_spdx =>
        \A k \in props.licenses \ props.SPDX_IDs :
            \E i \in 1..Len(content) : content[i].spdx = <<k>>
    /\ second_pass_done /\ args.add_spdx => ~is_mistagged(props)


(* C18: the range lookup of is_license_line and print_file_and_props is    *)
(* defined for every detected kind: a kind detected only by a single-line  *)
(* cue is treated as having no span, and does not make the lookup fail     *)
(* when another kind has a recorded range.                                 *)
C18_LookupDefined ==
    /\ err # "KeyError"
    /\ (scan_done /\ (args.show \/ args.strip_license_text)
            => ~lookup_fails(props))


(* The license blocks of c that the scan recognizes: a start line, the     *)
(* first end line after it with no start or end phrase in between, and a   *)
(* text from the start to the line before the end that identify_license    *)
(* knows.                                                                  *)
recognized_blocks(c) ==
    {b \in (1..Len(c)) \X (1..Len(c)) :
        /\ b[1] < b[2]
        /\ is_license_start(c[b[1]]) /\ ~is_license_end(c[b[1]])
        /\ is_license_end(c[b[2]]) /\ ~is_license_start(c[b[2]])
        /\ \A j \in (b[1] + 1)..(b[2] - 1) :
            ~is_license_start(c[j]) /\ ~is_license_end(c[j])
        /\ identify_license(SubSeq(c, b[1], b[2] - 1)).lic # ""}

(* C19: at the end of the scan every recognized license block is covered   *)
(* by a recorded range, so the strip-license-text action removes every     *)
(* recognized block, two separate blocks of the same kind included.        *)
C19_EveryBlockRecorded ==
    /\ scan_done =>
        \A b \in recognized_blocks(content0) :
            \E k \in DOMAIN props.lic_start_end :
                /\ props.lic_start_end[k][1] <= b[1]
                /\ b[2] <= props.lic_start_end[k][2]
    /\ pc = "done" /\ only({"strip_license_text"}) =>
        Len(content) <= Len(content0)
            - Cardinality({i \in 1..Len(content0) :
                \E b \in recognized_blocks(content0) :
                    b[1] <= i /\ i <= b[2]})


(* C20: at every point of the scan each recorded range [start, end] has    *)
(* 1 <= start < end <= lineno, its start line holds a license start        *)
(* phrase and its end line a license end phrase, the ranges of distinct    *)
(* kinds are pairwise disjoint, and the captured span text is non-empty    *)
(* only while a span is open.                                              *)
C20_RangesWellFormed ==
    LET r == props.lic_start_end
    IN  /\ \A k \in DOMAIN r :
            /\ 1 <= r[k][1] /\ r[k][1] < r[k][2] /\ r[k][2] <= sc.lineno
            /\ is_license_start(content0[r[k][1]])
            /\ is_license_end(content0[r[k][2]])
        /\ \A k1, k2 \in DOMAIN r :
            k1 # k2 => r[k1][2] < r[k2][1] \/ r[k2][2] < r[k1][1]
        /\ sc.text # <<>> => sc.in_license # 0
        /\ sc.in_license # 0 =>
            /\ sc.in_license <= sc.lineno
            /\ is_license_start(content0[sc.in_license])

(* Two ranges of distinct kinds are recorded while the scan is running.    *)
C20_Witness ==
    /\ pc = "scan"
    /\ Cardinality(DOMAIN props.lic_start_end) = 2
    /\ sc.lineno = Len(content)

====
